---- MODULE Spec2Model ----
(***************************************************************************)
(* A model of the suseejs bundler core:                                    *)
(*   src/src/remove/imports.ts  ImportStripper, ExportStripper, the        *)
(*                              dependency resolver wrapper and bundle     *)
(*   src/opt/compile.ts         commonjsCompiler, esmCompiler, mergeImports*)
(*                                                                         *)
(* Text is a sequence of one-character strings, so that the regular        *)
(* expressions and string methods of the source are computed on the        *)
(* characters they read.  A file's content is a sequence of lines; a line  *)
(* is a printed statement (an AST node), or a blank line.                  *)
(***************************************************************************)
EXTENDS Integers, Sequences, FiniteSets, TLC

VARIABLES merger, stripper, bundler, compiler

vars == <<merger, stripper, bundler, compiler>>

(***************************************************************************)
(* Bounds of the model.                                                    *)
(***************************************************************************)
MaxImports == 2
MaxStmts == 3
MaxUnits == 2
MaxBase == 3

(***************************************************************************)
(* Characters and words.                                                   *)
(***************************************************************************)
QUOTE == "\""
NL == "\n"

W_import == <<"i", "m", "p", "o", "r", "t">>
W_type == <<"t", "y", "p", "e">>
W_from == <<"f", "r", "o", "m">>
W_as == <<"a", "s">>
W_require == <<"r", "e", "q", "u", "i", "r", "e">>
W_importType == W_import \o <<" ">> \o W_type

\* the code units of the characters the model's texts are written in
CharCode(c) ==
    CASE c = "\n" -> 10
      [] c = " " -> 32
      [] c = "\"" -> 34
      [] c = "(" -> 40
      [] c = ")" -> 41
      [] c = "*" -> 42
      [] c = "," -> 44
      [] c = "." -> 46
      [] c = "/" -> 47
      [] c = ";" -> 59
      [] c = "=" -> 61
      [] c = "a" -> 97
      [] c = "b" -> 98
      [] c = "c" -> 99
      [] c = "d" -> 100
      [] c = "e" -> 101
      [] c = "f" -> 102
      [] c = "i" -> 105
      [] c = "j" -> 106
      [] c = "m" -> 109
      [] c = "o" -> 111
      [] c = "p" -> 112
      [] c = "q" -> 113
      [] c = "r" -> 114
      [] c = "s" -> 115
      [] c = "t" -> 116
      [] c = "u" -> 117
      [] c = "x" -> 120
      [] c = "y" -> 121
      [] c = "{" -> 123
      [] c = "}" -> 125
      [] OTHER -> 0

IsWs(c) == c \in {" ", "\n", "\t"}
IsQuote(c) == c \in {"\"", "'"}
IsLineEnd(c) == c \in {"\n", "\r"}
\* \w
IsWord(c) == CharCode(c) \in (97..122) \cup (65..90) \cup (48..57) \cup {95}

\* s has the characters of w at position p
HasAt(s, p, w) ==
    /\ p >= 1
    /\ p + Len(w) - 1 <= Len(s)
    /\ \A k \in 1..Len(w) : s[p + k - 1] = w[k]

\* String.prototype.includes
Includes(s, w) == \E p \in 1..Len(s) : HasAt(s, p, w)

\* String.prototype.startsWith
StartsWith(s, w) == HasAt(s, 1, w)

\* the number of consecutive whitespace characters from position p on (\s*)
RECURSIVE WsRun(_, _)
WsRun(s, p) == IF p > Len(s) \/ ~IsWs(s[p]) THEN 0 ELSE 1 + WsRun(s, p + 1)

\* the number of consecutive word characters from position p on (\w*)
RECURSIVE WordRun(_, _)
WordRun(s, p) == IF p > Len(s) \/ ~IsWord(s[p]) THEN 0 ELSE 1 + WordRun(s, p + 1)

\* the number of consecutive characters other than quotes from p on ([^"']*)
RECURSIVE NonQuoteRun(_, _)
NonQuoteRun(s, p) ==
    IF p > Len(s) \/ IsQuote(s[p]) THEN 0 ELSE 1 + NonQuoteRun(s, p + 1)

\* String.prototype.trim
RECURSIVE TrimLeft(_)
TrimLeft(s) == IF s # <<>> /\ IsWs(Head(s)) THEN TrimLeft(Tail(s)) ELSE s
RECURSIVE TrimRight(_)
TrimRight(s) ==
    IF s # <<>> /\ IsWs(s[Len(s)]) THEN TrimRight(SubSeq(s, 1, Len(s) - 1)) ELSE s
TrimStr(s) == TrimRight(TrimLeft(s))

\* the comparison Array.prototype.sort makes of two strings: by code units
RECURSIVE StrLess(_, _)
StrLess(a, b) ==
    IF b = <<>> THEN FALSE
    ELSE IF a = <<>> THEN TRUE
    ELSE IF CharCode(Head(a)) # CharCode(Head(b))
         THEN CharCode(Head(a)) < CharCode(Head(b))
    ELSE StrLess(Tail(a), Tail(b))

RECURSIVE InsertSorted(_, _)
InsertSorted(sorted, x) ==
    IF sorted = <<>> THEN <<x>>
    ELSE IF StrLess(x, Head(sorted)) THEN <<x>> \o sorted
    ELSE <<Head(sorted)>> \o InsertSorted(Tail(sorted), x)

\* Array.prototype.sort() (stable, default comparison)
RECURSIVE SortStrings(_)
SortStrings(xs) ==
    IF xs = <<>> THEN <<>>
    ELSE InsertSorted(SortStrings(SubSeq(xs, 1, Len(xs) - 1)), xs[Len(xs)])

\* Array.prototype.join
RECURSIVE Join(_, _)
Join(xs, sep) ==
    IF xs = <<>> THEN <<>>
    ELSE IF Len(xs) = 1 THEN xs[1]
    ELSE xs[1] \o sep \o Join(Tail(xs), sep)

\* String.prototype.split on one character
RECURSIVE SplitOn(_, _)
SplitOn(s, c) ==
    IF \E k \in 1..Len(s) : s[k] = c
    THEN LET k == CHOOSE k \in 1..Len(s) : s[k] = c /\ \A h \in 1..(k - 1) : s[h] # c
         IN <<SubSeq(s, 1, k - 1)>> \o SplitOn(SubSeq(s, k + 1, Len(s)), c)
    ELSE <<s>>

Range(f) == {f[k] : k \in DOMAIN f}

(***************************************************************************)
(* mergeImports (src/opt/compile.ts:172-296).                              *)
(*                                                                         *)
(* A JavaScript Map<string, Set<string>> is a sequence of entries          *)
(* [key, names] in insertion order, names a duplicate-free sequence in     *)
(* insertion order.                                                        *)
(***************************************************************************)
NoMatch == [matched |-> FALSE, clause |-> <<>>, modulePath |-> <<>>]

MapHas(m, k) == \E e \in 1..Len(m) : m[e].key = k

MapGet(m, k) == (CHOOSE e \in Range(m) : e.key = k).names

\* if (!map.has(k)) map.set(k, new Set())
MapEnsure(m, k) == IF MapHas(m, k) THEN m ELSE Append(m, [key |-> k, names |-> <<>>])

SetAdd(names, n) == IF n \in Range(names) THEN names ELSE Append(names, n)

\* map.get(k)?.add(n)
MapAdd(m, k, n) ==
    [e \in 1..Len(m) |->
        IF m[e].key = k THEN [m[e] EXCEPT !.names = SetAdd(@, n)] ELSE m[e]]

\* MatchTail with the capturing group drawn around the quotes as well
MatchTailQuoted(s, q, clause) ==
    LET n == NonQuoteRun(s, q + 1)
    IN IF /\ q <= Len(s)
          /\ IsQuote(s[q])
          /\ n >= 1
          /\ q + 1 + n <= Len(s)
          /\ IsQuote(s[q + 1 + n])
       THEN [matched |-> TRUE, clause |-> clause,
             modulePath |-> SubSeq(s, q, q + 1 + n)]
       ELSE NoMatch

\* ["']([^"']+)["'] at position q: the tail of the import pattern
MatchTail(s, q, clause) ==
    LET n == NonQuoteRun(s, q + 1)
    IN IF /\ q <= Len(s)
          /\ IsQuote(s[q])
          /\ n >= 1
          /\ q + 1 + n <= Len(s)
          /\ IsQuote(s[q + 1 + n])
       THEN [matched |-> TRUE, clause |-> clause,
             modulePath |-> SubSeq(s, q + 1, q + n)]
       ELSE NoMatch

\* (.*?)\s+from\s+ then the tail: the clause is s[q..e-1], the shortest that
\* lets the rest match; "." does not match a line terminator
RECURSIVE MatchClause(_, _, _)
MatchClause(s, q, e) ==
    IF e > Len(s) THEN NoMatch
    ELSE LET w1 == WsRun(s, e)
             w2 == WsRun(s, e + w1 + Len(W_from))
             r == IF w1 >= 1 /\ HasAt(s, e + w1, W_from) /\ w2 >= 1
                  THEN MatchTail(s, e + w1 + Len(W_from) + w2, SubSeq(s, q, e - 1))
                  ELSE NoMatch
         IN IF r.matched THEN r
            ELSE IF IsLineEnd(s[e]) THEN NoMatch
            ELSE MatchClause(s, q, e + 1)

\* (?:(.*?)\s+from\s+)?["']([^"']+)["'] at position q: the optional group is
\* tried first, then skipped (the clause is then undefined, here empty)
MatchClauseOpt(s, q) ==
    LET c == MatchClause(s, q, q)
    IN IF c.matched THEN c ELSE MatchTail(s, q, <<>>)

\* \s+ between positions q and q + w, w from the longest run down to 1
RECURSIVE MatchAfterTypeWs(_, _, _)
MatchAfterTypeWs(s, q, w) ==
    IF w < 1 THEN NoMatch
    ELSE LET r == MatchClauseOpt(s, q + w)
         IN IF r.matched THEN r ELSE MatchAfterTypeWs(s, q, w - 1)

\* (?:type\s+)? then the rest, at position q
MatchTypeOpt(s, q) ==
    LET t == IF HasAt(s, q, W_type)
             THEN MatchAfterTypeWs(s, q + Len(W_type), WsRun(s, q + Len(W_type)))
             ELSE NoMatch
    IN IF t.matched THEN t ELSE MatchClauseOpt(s, q)

RECURSIVE MatchAfterImportWs(_, _, _)
MatchAfterImportWs(s, q, w) ==
    IF w < 1 THEN NoMatch
    ELSE LET r == MatchTypeOpt(s, q + w)
         IN IF r.matched THEN r ELSE MatchAfterImportWs(s, q, w - 1)

\* the whole pattern tried at position p, then at the positions after it
RECURSIVE MatchImportFrom(_, _)
MatchImportFrom(s, p) ==
    IF p > Len(s) THEN NoMatch
    ELSE LET r == IF HasAt(s, p, W_import)
                  THEN MatchAfterImportWs(s, p + Len(W_import),
                                          WsRun(s, p + Len(W_import)))
                  ELSE NoMatch
         IN IF r.matched THEN r ELSE MatchImportFrom(s, p + 1)

\* importStr.match(/import\s+(?:type\s+)?(?:(.*?)\s+from\s+)?["']([^"']+)["'];?/)
ImportMatch(importStr) == MatchImportFrom(importStr, 1)

\* importStr.match(/import\s+(?:type\s+)?(\w+)/): the captured name, <<>> if none
RECURSIVE DefaultMatchFrom(_, _)
DefaultMatchFrom(s, p) ==
    IF p > Len(s) THEN <<>>
    ELSE LET q == p + Len(W_import) + WsRun(s, p + Len(W_import))
             t == q + Len(W_type) + WsRun(s, q + Len(W_type))
             ok == HasAt(s, p, W_import) /\ WsRun(s, p + Len(W_import)) >= 1
         IN IF ok /\ HasAt(s, q, W_type) /\ WsRun(s, q + Len(W_type)) >= 1
                  /\ WordRun(s, t) >= 1
            THEN SubSeq(s, t, t + WordRun(s, t) - 1)
            ELSE IF ok /\ WordRun(s, q) >= 1
            THEN SubSeq(s, q, q + WordRun(s, q) - 1)
            ELSE DefaultMatchFrom(s, p + 1)

DefaultMatch(importStr) == DefaultMatchFrom(importStr, 1)

\* importClause.match(/\*\s+as\s+(\w+)/): the captured name, <<>> if none
RECURSIVE NamespaceMatchFrom(_, _)
NamespaceMatchFrom(s, p) ==
    IF p > Len(s) THEN <<>>
    ELSE LET a == p + 1 + WsRun(s, p + 1)
             n == a + Len(W_as) + WsRun(s, a + Len(W_as))
         IN IF /\ s[p] = "*"
               /\ WsRun(s, p + 1) >= 1
               /\ HasAt(s, a, W_as)
               /\ WsRun(s, a + Len(W_as)) >= 1
               /\ WordRun(s, n) >= 1
            THEN SubSeq(s, n, n + WordRun(s, n) - 1)
            ELSE NamespaceMatchFrom(s, p + 1)

NamespaceMatch(importClause) == NamespaceMatchFrom(importClause, 1)

\* importClause.replace(/[{}]/g, "")
StripBraces(s) == SelectSeq(s, LAMBDA c : c \notin {"{", "}"})

\* .split(",").map((s) => s.trim()).filter(Boolean)
ClauseNames(importClause) ==
    LET parts == SplitOn(StripBraces(importClause), ",")
        trimmed == [k \in 1..Len(parts) |-> TrimStr(parts[k])]
    IN SelectSeq(trimmed, LAMBDA n : n # <<>>)

RECURSIVE MapAddAll(_, _, _)
MapAddAll(m, k, names) ==
    IF names = <<>> THEN m ELSE MapAddAll(MapAdd(m, k, Head(names)), k, Tail(names))

EmptyMaps ==
    [importMap |-> <<>>, typeImportMap |-> <<>>, defaultImports |-> <<>>,
     typeDefaultImports |-> <<>>, namespaceImports |-> <<>>]

\* importStr.includes("import type")
IsTypeImport(importStr) == Includes(importStr, W_importType)

\* if (!targetMap.has(modulePath)) targetMap.set(modulePath, new Set());
\* targetMap.get(modulePath)?.add(name)
AddName(targetMap, modulePath, name) ==
    MapAdd(MapEnsure(targetMap, modulePath), modulePath, name)

\* the same for every name of names (lines 205-213)
AddNames(targetMap, modulePath, names) ==
    MapAddAll(MapEnsure(targetMap, modulePath), modulePath, names)

\* const targetMap = isTypeImport ? typeDefaultImports : defaultImports, and
\* the name added to it (lines 195-197 and 225-227)
AddDefault(maps, isTypeImport, modulePath, name) ==
    IF isTypeImport
    THEN [maps EXCEPT !.typeDefaultImports = AddName(@, modulePath, name)]
    ELSE [maps EXCEPT !.defaultImports = AddName(@, modulePath, name)]

\* const targetMap = isTypeImport ? typeImportMap : importMap, and the names
\* added to it (lines 204-213)
AddNamed(maps, isTypeImport, modulePath, names) ==
    IF isTypeImport
    THEN [maps EXCEPT !.typeImportMap = AddNames(@, modulePath, names)]
    ELSE [maps EXCEPT !.importMap = AddNames(@, modulePath, names)]

\* lines 190-228: the maps after a statement that matched
ParseMatched(maps, importStr, importClause, modulePath, isTypeImport) ==
    IF importClause = <<>>
    THEN \* default import or side-effect import
         IF DefaultMatch(importStr) # <<>>
         THEN AddDefault(maps, isTypeImport, modulePath, DefaultMatch(importStr))
         ELSE maps
    ELSE IF StartsWith(importClause, <<"{">>)
    THEN AddNamed(maps, isTypeImport, modulePath, ClauseNames(importClause))
    ELSE IF StartsWith(importClause, <<"*", " ">> \o W_as)
    THEN IF NamespaceMatch(importClause) # <<>>
         THEN [maps EXCEPT !.namespaceImports =
                   AddName(@, modulePath, NamespaceMatch(importClause))]
         ELSE maps
    ELSE AddDefault(maps, isTypeImport, modulePath, TrimStr(importClause))

\* one turn of the parse loop (lines 180-229): the maps after importStr
ParseImport(maps, importStr) ==
    IF ~ImportMatch(importStr).matched THEN maps
    ELSE ParseMatched(maps, importStr, ImportMatch(importStr).clause,
                      ImportMatch(importStr).modulePath, IsTypeImport(importStr))

RECURSIVE ParseImports(_, _)
ParseImports(maps, imports) ==
    IF imports = <<>> THEN maps
    ELSE ParseImports(ParseImport(maps, Head(imports)), Tail(imports))

\* the statement texts the merger emits
Quoted(modulePath) == <<QUOTE>> \o modulePath \o <<QUOTE>>
FromTail(modulePath) == <<" ">> \o W_from \o <<" ">> \o Quoted(modulePath) \o <<";">>
NamedText(names, modulePath) ==
    W_import \o <<" ", "{", " ">> \o Join(names, <<",", " ">>) \o <<" ", "}">>
        \o FromTail(modulePath)
TypeNamedText(names, modulePath) ==
    W_importType \o <<" ", "{", " ">> \o Join(names, <<",", " ">>) \o <<" ", "}">>
        \o FromTail(modulePath)
DefaultText(names, modulePath) ==
    W_import \o <<" ">> \o Join(names, <<",", " ">>) \o FromTail(modulePath)
TypeDefaultText(names, modulePath) ==
    W_importType \o <<" ">> \o Join(names, <<",", " ">>) \o FromTail(modulePath)
NamespaceText(names, modulePath) ==
    W_import \o <<" ", "*", " ">> \o W_as \o <<" ">> \o Join(names, <<",", " ">>)
        \o FromTail(modulePath)

\* finalNames: the regular names, then the type names that are not regular
\* names (lines 238-243 and 266-271)
RECURSIVE AddAll(_, _)
AddAll(names, more) ==
    IF more = <<>> THEN names ELSE AddAll(SetAdd(names, Head(more)), Tail(more))

FinalNames(typeMap, modulePath, regularNames) ==
    LET typeNames == IF MapHas(typeMap, modulePath) THEN MapGet(typeMap, modulePath)
                     ELSE <<>>
    IN AddAll(regularNames,
              SelectSeq(typeNames, LAMBDA n : n \notin Range(regularNames)))

\* lines 233-249
MergedNamed(maps) ==
    LET one(e) == LET finalNames == FinalNames(maps.typeImportMap, e.key, e.names)
                  IN IF Len(finalNames) > 0
                     THEN <<NamedText(SortStrings(finalNames), e.key)>>
                     ELSE <<>>
        all == [k \in 1..Len(maps.importMap) |-> one(maps.importMap[k])]
    IN Join(all, <<>>)

\* lines 251-259
MergedTypeNamed(maps) ==
    LET one(e) == IF ~MapHas(maps.importMap, e.key) /\ Len(e.names) > 0
                  THEN <<TypeNamedText(SortStrings(e.names), e.key)>>
                  ELSE <<>>
        all == [k \in 1..Len(maps.typeImportMap) |-> one(maps.typeImportMap[k])]
    IN Join(all, <<>>)

\* lines 261-277
MergedDefault(maps) ==
    LET one(e) == LET finalNames == FinalNames(maps.typeDefaultImports, e.key, e.names)
                  IN IF Len(finalNames) > 0
                     THEN <<DefaultText(finalNames, e.key)>>
                     ELSE <<>>
        all == [k \in 1..Len(maps.defaultImports) |-> one(maps.defaultImports[k])]
    IN Join(all, <<>>)

\* lines 279-285
MergedTypeDefault(maps) ==
    LET one(e) == IF ~MapHas(maps.defaultImports, e.key) /\ Len(e.names) > 0
                  THEN <<TypeDefaultText(e.names, e.key)>>
                  ELSE <<>>
        all == [k \in 1..Len(maps.typeDefaultImports) |-> one(maps.typeDefaultImports[k])]
    IN Join(all, <<>>)

\* lines 287-293
MergedNamespace(maps) ==
    LET one(e) == IF Len(e.names) > 0
                  THEN <<NamespaceText(e.names, e.key)>>
                  ELSE <<>>
        all == [k \in 1..Len(maps.namespaceImports) |-> one(maps.namespaceImports[k])]
    IN Join(all, <<>>)

\* lines 231-295: the emitted statements, sorted
EmitMerged(maps) ==
    SortStrings(MergedNamed(maps) \o MergedTypeNamed(maps) \o MergedDefault(maps)
                    \o MergedTypeDefault(maps) \o MergedNamespace(maps))

mergeImports(imports) == EmitMerged(ParseImports(EmptyMaps, imports))


(***************************************************************************)
(* Statements.  A statement is an AST node as the TypeScript parser gives  *)
(* it: its kind, its modifiers, and for an import its source text          *)
(* (node.getText), its module specifier and the names it binds.            *)
(***************************************************************************)
Node(kind, mods, name, ident, body) ==
    [kind |-> kind, mods |-> mods, name |-> name, ident |-> ident, body |-> body,
     text |-> <<>>, spec |-> <<>>, typeOnly |-> FALSE,
     dflt |-> {}, named |-> {}, ns |-> {}]

ImportNode(kind, text, spec, typeOnly, dflt, named, ns) ==
    [kind |-> kind, mods |-> <<>>, name |-> <<>>, ident |-> FALSE, body |-> <<>>,
     text |-> text, spec |-> spec, typeOnly |-> typeOnly,
     dflt |-> dflt, named |-> named, ns |-> ns]

\* the names an import statement binds: its default name, its named imports
\* and its namespace alias
BindingNames(n) == n.dflt \cup n.named \cup n.ns

N_a == <<"a">>
N_b == <<"b">>
N_types == <<"t", "y", "p", "e", "s">>
M_m == <<"m">>
M_x == <<"x">>
M_rel == <<".", "/", "m">>
M_up == <<".", ".", "/", "m">>

\* import { a, b } from "m";   import type { a } from "m";
NamedImport(typeOnly, names, spec) ==
    ImportNode("ImportDeclaration",
               IF typeOnly THEN TypeNamedText(names, spec) ELSE NamedText(names, spec),
               spec, typeOnly, {}, Range(names), {})

\* import a from "m";   import type a from "m";
DefaultImport(typeOnly, name, spec) ==
    ImportNode("ImportDeclaration",
               IF typeOnly THEN TypeDefaultText(<<name>>, spec)
               ELSE DefaultText(<<name>>, spec),
               spec, typeOnly, {name}, {}, {})

\* import * as a from "m";
NamespaceImport(name, spec) ==
    ImportNode("ImportDeclaration", NamespaceText(<<name>>, spec), spec, FALSE,
               {}, {}, {name})

\* import a, { b } from "m";
DefaultAndNamedImport(name, names, spec) ==
    ImportNode("ImportDeclaration",
               W_import \o <<" ">> \o name \o <<",", " ", "{", " ">>
                   \o Join(names, <<",", " ">>) \o <<" ", "}">> \o FromTail(spec),
               spec, FALSE, {name}, Range(names), {})

\* import "m";
SideEffectImport(spec) ==
    ImportNode("ImportDeclaration", W_import \o <<" ">> \o Quoted(spec) \o <<";">>,
               spec, FALSE, {}, {}, {})

\* import a = require("m");
ImportEquals(name, spec) ==
    ImportNode("ImportEqualsDeclaration",
               W_import \o <<" ">> \o name \o <<" ", "=", " ">> \o W_require \o <<"(">>
                   \o Quoted(spec) \o <<")", ";">>,
               spec, FALSE, {}, {}, {name})

\* import {
\*   a
\* } from "m";
MultiLineImport(name, spec) ==
    ImportNode("ImportDeclaration",
               W_import \o <<" ", "{", NL, " ", " ">> \o name \o <<NL, "}">>
                   \o FromTail(spec),
               spec, FALSE, {}, {name}, {})

\* the import statements the model's units and lists are drawn from
ImportPalette ==
    { NamedImport(FALSE, <<N_a>>, M_m),
      NamedImport(FALSE, <<N_b, N_a>>, M_m),
      NamedImport(TRUE, <<N_a>>, M_m),
      NamedImport(TRUE, <<N_b>>, M_m),
      NamedImport(FALSE, <<N_b>>, M_x),
      NamedImport(FALSE, <<N_a>>, M_rel),
      DefaultImport(FALSE, N_a, M_m),
      DefaultImport(TRUE, N_a, M_m),
      DefaultImport(FALSE, N_types, M_m),
      DefaultImport(TRUE, N_types, M_m),
      DefaultImport(FALSE, N_b, M_up),
      NamespaceImport(N_b, M_m),
      DefaultAndNamedImport(N_a, <<N_b>>, M_m),
      SideEffectImport(M_m),
      ImportEquals(N_a, M_m),
      MultiLineImport(N_a, M_m) }

ImportTexts == {n.text : n \in ImportPalette}

\* the lists of at most n elements of S
RECURSIVE SeqsUpTo(_, _)
SeqsUpTo(S, n) ==
    IF n = 0 THEN {<<>>}
    ELSE LET shorter == SeqsUpTo(S, n - 1)
         IN shorter \cup {Append(q, x) : q \in {r \in shorter : Len(r) = n - 1}, x \in S}

(***************************************************************************)
(* File contents.  A text is a non-empty sequence of lines; the empty      *)
(* string is the one blank line.  A line that is not blank is a printed    *)
(* statement; the statements of a namespace body are printed inside it,    *)
(* indented.                                                               *)
(***************************************************************************)
Blank == Node("Blank", <<>>, <<>>, FALSE, <<>>)
EmptyText == <<Blank>>
EmptyStatement == Node("EmptyStatement", <<>>, <<>>, FALSE, <<>>)

\* ts.createSourceFile: the statements of a text
Parse(text) == SelectSeq(text, LAMBDA line : line # Blank)

\* transformFunction: the printer writes each statement on a line of its own,
\* ends the file with a line break and keeps no blank line of the source
PrinterOutput(statements) == IF statements = <<>> THEN EmptyText ELSE statements \o <<Blank>>

\* String.prototype.trim on a text
RECURSIVE TrimLeading(_)
TrimLeading(text) ==
    IF Len(text) > 1 /\ Head(text) = Blank THEN TrimLeading(Tail(text)) ELSE text
RECURSIVE TrimTrailing(_)
TrimTrailing(text) ==
    IF Len(text) > 1 /\ text[Len(text)] = Blank
    THEN TrimTrailing(SubSeq(text, 1, Len(text) - 1))
    ELSE text
TrimText(text) == TrimTrailing(TrimLeading(text))

\* the line matches /^s*;\s*$/m: it is written at column 0 as zero or more
\* letters s and a semicolon (the printed empty statement, or the statement s;)
MatchesSemicolonLine(line) ==
    \/ line.kind = "EmptyStatement"
    \/ /\ line.kind = "ExpressionStatement"
       /\ line.ident
       /\ \A k \in 1..Len(line.name) : line.name[k] = "s"

\* _content.replace(/^s*;\s*$/gm, "").trim()
CleanUp(text) ==
    TrimText([k \in 1..Len(text) |->
                 IF MatchesSemicolonLine(text[k]) THEN Blank ELSE text[k]])

\* a + "\n" + b
JoinTexts(a, b) == a \o b

\* texts.join("\n")
RECURSIVE JoinLines(_)
JoinLines(texts) ==
    IF texts = <<>> THEN EmptyText
    ELSE IF Len(texts) = 1 THEN texts[1]
    ELSE JoinTexts(texts[1], JoinLines(Tail(texts)))

(***************************************************************************)
(* ImportStripper: removeImportExpressionHandler                           *)
(* (src/src/remove/imports.ts:5-39).                                       *)
(***************************************************************************)
IsImport(node) == node.kind \in {"ImportDeclaration", "ImportEqualsDeclaration"}

\* the visitor (lines 18-32): the node that replaces node
RECURSIVE removeImportVisitor(_)
removeImportVisitor(node) ==
    IF IsImport(node) THEN EmptyStatement
    ELSE [node EXCEPT !.body = [k \in 1..Len(node.body) |-> removeImportVisitor(node.body[k])]]

\* the texts the visitor pushes for node, in the order of its depth-first walk
RECURSIVE RemovedBy(_)
RemovedBy(node) ==
    IF IsImport(node) THEN <<node.text>>
    ELSE Join([k \in 1..Len(node.body) |-> RemovedBy(node.body[k])], <<>>)

\* the handler (lines 9-38): the new content of the unit
removeImport(content) ==
    LET sourceFile == Parse(content)
    IN CleanUp(PrinterOutput([k \in 1..Len(sourceFile) |-> removeImportVisitor(sourceFile[k])]))

\* the handler's side effect: what it appends to removedStatements
removedFrom(content) ==
    LET sourceFile == Parse(content)
    IN Join([k \in 1..Len(sourceFile) |-> RemovedBy(sourceFile[k])], <<>>)

(***************************************************************************)
(* ExportStripper: removeExportExpressionHandler                           *)
(* (src/src/remove/imports.ts:45-156).                                     *)
(***************************************************************************)
DeclarationKinds ==
    {"FunctionDeclaration", "ClassDeclaration", "InterfaceDeclaration",
     "TypeAliasDeclaration", "EnumDeclaration", "VariableStatement"}

\* Case 1 applies to the node (lines 60-67)
IsStrippedDeclaration(node) == node.kind \in DeclarationKinds

\* node.modifiers?.filter(...) (lines 68-72)
FilterModifiers(mods) == SelectSeq(mods, LAMBDA m : m \notin {"export", "default"})

\* Case 3 without its test of the exported expression
IsRemovedExportAssignmentAny(node) == node.kind = "ExportAssignment"

\* Case 3 removes the node (lines 141-146)
IsRemovedExportAssignment(node) == node.kind = "ExportAssignment" /\ node.ident

\* the visitor (lines 57-149): the node that replaces node
RECURSIVE removeExportVisitor(_)
removeExportVisitor(node) ==
    IF IsStrippedDeclaration(node) /\ Len(FilterModifiers(node.mods)) # Len(node.mods)
    THEN [node EXCEPT !.mods = FilterModifiers(node.mods)]
    ELSE IF node.kind = "ExportDeclaration" THEN EmptyStatement
    ELSE IF IsRemovedExportAssignment(node) THEN EmptyStatement
    ELSE [node EXCEPT !.body = [k \in 1..Len(node.body) |-> removeExportVisitor(node.body[k])]]

\* the handler (lines 48-155): the new content of the unit
removeExport(content) ==
    LET sourceFile == Parse(content)
    IN CleanUp(PrinterOutput([k \in 1..Len(sourceFile) |-> removeExportVisitor(sourceFile[k])]))

(***************************************************************************)
(* The state of each component when it is not running.                     *)
(***************************************************************************)
MergerIdle ==
    [pc |-> "idle", imports |-> <<>>, i |-> 0, maps |-> EmptyMaps, mergedImports |-> <<>>]
StripperIdle ==
    [pc |-> "idle", content |-> EmptyText, once |-> EmptyText, twice |-> EmptyText]
BundlerIdle ==
    [pc |-> "idle", reName |-> TRUE, depFiles |-> <<>>, messages |-> <<>>, deps |-> <<>>,
     isJsx |-> FALSE, i |-> 0, removedStatements |-> <<>>, depsFiles |-> <<>>,
     mainFile |-> <<>>, result |-> [content |-> <<>>, isJsx |-> FALSE]]
CompilerIdle ==
    [pc |-> "idle", base |-> <<>>, all |-> FALSE, hooks |-> <<>>,
     done |-> [d \in {"cjs", "esm"} |-> FALSE],
     callbacks |-> [d \in {"cjs", "esm"} |-> <<>>]]

(***************************************************************************)
(* SpecMerge: mergeImports run on a list of import-statement texts, one    *)
(* turn of its parse loop at a time, then its emission.                    *)
(***************************************************************************)
InitMerge ==
    /\ merger \in {[pc |-> "parse", imports |-> imports, i |-> 1, maps |-> EmptyMaps,
                    mergedImports |-> <<>>] : imports \in SeqsUpTo(ImportTexts, MaxImports)}
    /\ stripper = StripperIdle
    /\ bundler = BundlerIdle
    /\ compiler = CompilerIdle

\* for (const importStr of imports) { ... }
MergeParse ==
    /\ merger.pc = "parse"
    /\ merger.i <= Len(merger.imports)
    /\ merger' = [merger EXCEPT !.maps = ParseImport(@, merger.imports[merger.i]),
                                !.i = @ + 1]
    /\ UNCHANGED <<stripper, bundler, compiler>>

\* the emission loops and the final sort; return mergedImports.sort()
MergeEmit ==
    /\ merger.pc = "parse"
    /\ merger.i > Len(merger.imports)
    /\ merger' = [merger EXCEPT !.mergedImports = EmitMerged(merger.maps),
                                !.pc = "done"]
    /\ UNCHANGED <<stripper, bundler, compiler>>

NextMerge == MergeParse \/ MergeEmit

SpecMerge == InitMerge /\ [][NextMerge]_vars

(***************************************************************************)
(* Reading a statement text back: what a list of import statements says,   *)
(* for the claims about mergeImports and bundle.                           *)
(***************************************************************************)
\* the module specifier of a statement text: what its first quotes enclose
TextSpec(text) ==
    IF \E q \in 1..Len(text) : IsQuote(text[q])
    THEN LET q == CHOOSE q \in 1..Len(text) :
                      IsQuote(text[q]) /\ \A h \in 1..(q - 1) : ~IsQuote(text[h])
         IN SubSeq(text, q + 1, q + NonQuoteRun(text, q + 1))
    ELSE <<>>

\* the statement text up to its module specifier
TextClause(text) ==
    IF \E q \in 1..Len(text) : IsQuote(text[q])
    THEN SubSeq(text, 1, (CHOOSE q \in 1..Len(text) :
                              IsQuote(text[q]) /\ \A h \in 1..(q - 1) : ~IsQuote(text[h])) - 1)
    ELSE text

\* the statement is an "import type" statement
TextIsTypeForm(text) == StartsWith(text, W_importType \o <<" ">>)

\* the statement binds name: name stands in its clause as a whole word
TextBinds(text, name) ==
    LET c == TextClause(text)
    IN \E p \in (Len(W_import) + 1)..Len(c) :
          /\ HasAt(c, p, name)
          /\ ~IsWord(c[p - 1])
          /\ (p + Len(name) > Len(c) \/ ~IsWord(c[p + Len(name)]))
          /\ ~(TextIsTypeForm(text) /\ p = Len(W_import) + 2 /\ name = W_type)

\* a relative module specifier begins with ./ or ../
IsRelative(spec) == StartsWith(spec, <<".", "/">>) \/ StartsWith(spec, <<".", ".", "/">>)

\* the statements (AST nodes) whose texts the merger was given
MergeInput == {n \in ImportPalette : n.text \in Range(merger.imports)}
MergeOutput == Range(merger.mergedImports)

\* C3 (as claimed): when mergeImports has returned, every binding name of an
\* input statement occurs in some output statement, and for each module path
\* and each of the value and type categories no binding name occurs in more
\* than one output statement.
C3_EveryNameKeptOnce ==
    merger.pc = "done" =>
        /\ \A n \in MergeInput : \A name \in BindingNames(n) :
              \E out \in MergeOutput : TextBinds(out, name)
        /\ \A n \in MergeInput : \A name \in BindingNames(n) :
              \A o1, o2 \in MergeOutput :
                  ( /\ TextBinds(o1, name) /\ TextBinds(o2, name)
                    /\ TextSpec(o1) = TextSpec(o2)
                    /\ TextIsTypeForm(o1) = TextIsTypeForm(o2) ) => o1 = o2

\* C4 (as claimed): when mergeImports has returned, a name that the input
\* imports from one module path both as a value and type-only (both as a named
\* import, or both as the default import) is carried by a value-form output
\* statement for that module path and by no "import type" output statement
\* for it.
C4_ValueFormOnly ==
    merger.pc = "done" =>
        \A v, t \in MergeInput :
          \A name \in (v.named \cap t.named) \cup (v.dflt \cap t.dflt) :
            (~v.typeOnly /\ t.typeOnly /\ v.spec = t.spec) =>
                /\ \E out \in MergeOutput :
                      /\ ~TextIsTypeForm(out)
                      /\ TextSpec(out) = v.spec
                      /\ TextBinds(out, name)
                /\ ~\E out \in MergeOutput :
                      /\ TextIsTypeForm(out)
                      /\ TextSpec(out) = v.spec
                      /\ TextBinds(out, name)

\* C5 (as claimed): when mergeImports has returned, no output statement has a
\* relative module specifier, whatever the input list held.
C5_NoRelativeOutput ==
    merger.pc = "done" => \A out \in MergeOutput : ~IsRelative(TextSpec(out))

\* C5 (amended): when mergeImports has returned, every output statement
\* carries the module specifier of some input statement, so the output has a
\* relative specifier only if the input had that one.
C5_OutputSpecifierFromInput ==
    merger.pc = "done" =>
        \A out \in MergeOutput : \E n \in MergeInput : n.spec = TextSpec(out)

\* C5 witness: mergeImports has returned a statement with a relative specifier
\* for an input list that held one.
C5_RelativePassedThrough ==
    /\ merger.pc = "done"
    /\ \E n \in MergeInput : IsRelative(n.spec)
    /\ \E out \in MergeOutput : IsRelative(TextSpec(out))

(***************************************************************************)
(* SpecExport: ExportStripper run on a unit, then run again on its own     *)
(* output.                                                                 *)
(***************************************************************************)
\* export function f() { }
S_exportFunction == Node("FunctionDeclaration", <<"export">>, <<"f">>, FALSE, <<>>)
\* export default function f() { }
S_defaultFunction == Node("FunctionDeclaration", <<"export", "default">>, <<"f">>, FALSE, <<>>)
\* export default function () { return 1; }
S_defaultAnonymousFunction == Node("FunctionDeclaration", <<"export", "default">>, <<>>, FALSE, <<>>)
\* export default class { }
S_defaultClass == Node("ClassDeclaration", <<"export", "default">>, <<>>, FALSE, <<>>)
\* function g() { }
S_function == Node("FunctionDeclaration", <<>>, <<"g">>, FALSE, <<>>)
\* export const a = 1;
S_exportConst == Node("VariableStatement", <<"export">>, <<"a">>, FALSE, <<>>)
\* export { a };
S_exportList == Node("ExportDeclaration", <<>>, <<"a">>, FALSE, <<>>)
\* export default a;
S_exportDefaultIdentifier == Node("ExportAssignment", <<>>, <<"a">>, TRUE, <<>>)
\* export default 1;
S_exportDefaultLiteral == Node("ExportAssignment", <<>>, <<"1">>, FALSE, <<>>)
\* export namespace n { export const a = 1; export { a }; }
S_exportNamespace ==
    Node("ModuleDeclaration", <<"export">>, <<"n">>, FALSE, <<S_exportConst, S_exportList>>)
\* s;
S_s == Node("ExpressionStatement", <<>>, <<"s">>, TRUE, <<>>)
\* a();
S_call == Node("ExpressionStatement", <<>>, <<"a", "(", ")">>, FALSE, <<>>)

StatementPalette ==
    { S_exportFunction, S_defaultFunction, S_defaultAnonymousFunction, S_defaultClass,
      S_function, S_exportConst, S_exportList, S_exportDefaultIdentifier,
      S_exportDefaultLiteral, S_exportNamespace, S_s, S_call }

\* the text of a unit that holds the given statements
TextOf(statements) == IF statements = <<>> THEN EmptyText ELSE statements

InitExport ==
    /\ stripper \in {[pc |-> "start", content |-> TextOf(statements),
                      once |-> EmptyText, twice |-> EmptyText] :
                        statements \in SeqsUpTo(StatementPalette, MaxStmts)}
    /\ merger = MergerIdle
    /\ bundler = BundlerIdle
    /\ compiler = CompilerIdle

\* removeExport[0](unit)
StripOnce ==
    /\ stripper.pc = "start"
    /\ stripper' = [stripper EXCEPT !.once = removeExport(stripper.content), !.pc = "once"]
    /\ UNCHANGED <<merger, bundler, compiler>>

\* removeExport[0] applied to what it returned
StripTwice ==
    /\ stripper.pc = "once"
    /\ stripper' = [stripper EXCEPT !.twice = removeExport(stripper.once), !.pc = "twice"]
    /\ UNCHANGED <<merger, bundler, compiler>>

NextExport == StripOnce \/ StripTwice

SpecExport == InitExport /\ [][NextExport]_vars

\* a default export: an export assignment, or a declaration that carries the
\* default modifier
IsDefaultExport(node) == node.kind = "ExportAssignment" \/ "default" \in Range(node.mods)

\* `export default <identifier>;`
IsBareIdentifierDefault(node) == node.kind = "ExportAssignment" /\ node.ident

Stripped == stripper.pc \in {"once", "twice"}

\* C7 (as claimed): after ExportStripper has run, every default export of the
\* unit whose exported expression is not a bare identifier (among them
\* `export default function(){ return 1; }`) is in the output untouched.
C7_NonIdentifierDefaultUntouched ==
    Stripped =>
        \A node \in Range(stripper.content) :
            (IsDefaultExport(node) /\ ~IsBareIdentifierDefault(node)) =>
                node \in Range(stripper.once)

\* C7 (amended): after ExportStripper has run, every `export default
\* <expression>;` statement whose expression is not a bare identifier is in
\* the output untouched and every `export default <identifier>;` is removed;
\* a function or class declaration that carries `export default` is not left
\* untouched: it is in the output without its export and default modifiers.
C7_DefaultExportRule ==
    Stripped =>
        \A node \in Range(stripper.content) :
            /\ (node.kind = "ExportAssignment" /\ ~node.ident) =>
                    node \in Range(stripper.once)
            /\ IsBareIdentifierDefault(node) => node \notin Range(stripper.once)
            /\ (node.kind \in DeclarationKinds /\ "default" \in Range(node.mods)) =>
                    /\ node \notin Range(stripper.once)
                    /\ [node EXCEPT !.mods = <<>>] \in Range(stripper.once)

\* C7 witness: ExportStripper has run on a unit that holds both
\* `export default 1;` and `export default function(){ return 1; }`.
C7_DefaultsStripped ==
    /\ stripper.pc = "once"
    /\ S_exportDefaultLiteral \in Range(stripper.content)
    /\ S_defaultAnonymousFunction \in Range(stripper.content)
    /\ S_exportDefaultLiteral \in Range(stripper.once)

\* C9 (as claimed): ExportStripper applied to its own output returns that
\* output.
C9_SecondPassChangesNothing ==
    stripper.pc = "twice" => stripper.twice = stripper.once

(***************************************************************************)
(* Spec: bundle (src/src/remove/imports.ts:227-311), with the resolver     *)
(* wrapper dependency / getDependencies (lines 167-207).                   *)
(*                                                                         *)
(* The resolver, the validators, the duplicate handlers and the anonymous  *)
(* normalizer are other packages: the resolver's answer is any ordered     *)
(* list of units with any findings, the validators and the duplicate       *)
(* handlers pass or throw, and the units are taken as these passes leave   *)
(* them.                                                                   *)
(***************************************************************************)
\* a line of plain text in an assembled content
TextLine(text) == [Node("Text", <<>>, <<>>, FALSE, <<>>) EXCEPT !.text = text]

\* declare module "x" { import a = require("m"); }
S_moduleWithImport ==
    Node("ModuleDeclaration", <<"declare">>, <<"x">>, FALSE, <<ImportEquals(N_a, M_m)>>)

\* the contents utils.readFile can return
UnitPalette ==
    { <<NamedImport(FALSE, <<N_a>>, M_m), S_exportFunction>>,
      <<NamedImport(FALSE, <<N_a>>, M_rel), NamedImport(FALSE, <<N_b>>, M_x), S_exportConst>>,
      <<ImportEquals(N_a, M_m), S_exportDefaultLiteral>>,
      <<S_call, S_exportList, MultiLineImport(N_a, M_m), S_defaultFunction>>,
      <<SideEffectImport(M_m), S_function, S_exportDefaultIdentifier>>,
      <<S_moduleWithImport, DefaultImport(FALSE, N_b, M_up), S_exportNamespace>>,
      <<S_function>> }

Files == <<"a.ts", "b.ts", "c.ts", "d.ts">>

\* what deps.mutual() and deps.warn() can return
MutualChoices == {<<>>, <<<<"a.ts", "b.ts">>>>}
WarnChoices == {<<>>, <<"x">>, <<"x", "y">>}

RECURSIVE JoinStrings(_)
JoinStrings(xs) == IF xs = <<>> THEN "" ELSE Head(xs) \o JoinStrings(Tail(xs))

\* getDependencies (lines 172-180): the warning messages
MessagesOf(mutual, warn) ==
    LET circular == [k \in 1..Len(mutual) |->
                        mutual[k][1] \o " -> " \o mutual[k][2] \o " \n "
                            \o mutual[k][2] \o " -> " \o mutual[k][1] \o " \n"]
        unknown == [k \in 1..Len(warn) |-> warn[k] \o "\n"]
    IN (IF Len(circular) > 0 THEN <<JoinStrings(circular)>> ELSE <<>>)
           \o (IF Len(unknown) > 0 THEN <<JoinStrings(unknown)>> ELSE <<>>)

\* dependency (lines 196-206): the units of the sorted paths
DepFilesOf(sorted, contents) ==
    [k \in 1..Len(sorted) |-> [file |-> sorted[k], content |-> contents[k]]]

\* the regexp of line 299 tested on i: some quote is followed by a run of
\* characters other than quotes that does not begin with ./ or ../ and is
\* followed by a quote
IsNotLocal(i) ==
    \E q \in 1..Len(i) :
        /\ IsQuote(i[q])
        /\ ~HasAt(i, q + 1, <<".", "/">>)
        /\ ~HasAt(i, q + 1, <<".", ".", "/">>)
        /\ NonQuoteRun(i, q + 1) >= 1
        /\ q + 1 + NonQuoteRun(i, q + 1) <= Len(i)

\* deps.slice(0, -1).map(removeExport[0]) with every unit taken
AllUnitsStripped(deps) ==
    [k \in 1..Len(deps) |-> [deps[k] EXCEPT !.content = removeExport(@)]]

\* deps.slice(0, -1).map(removeExport[0]) (line 295)
DepsFilesOf(deps) ==
    [k \in 1..(Len(deps) - 1) |-> [deps[k] EXCEPT !.content = removeExport(@)]]

\* deps.slice(-1) (line 296)
MainFileOf(deps) == IF deps = <<>> THEN <<>> ELSE <<deps[Len(deps)]>>

\* removedStatements.join("\n").trim() (line 304)
ImportBlock(removedStatements) ==
    TrimText(JoinLines([k \in 1..Len(removedStatements) |->
                           <<TextLine(removedStatements[k])>>]))

\* lines 304-307: the final content
ContentOf(removedStatements, depsFiles, mainFile) ==
    TrimText(JoinTexts(JoinTexts(ImportBlock(removedStatements),
                                 JoinLines([k \in 1..Len(depsFiles) |-> depsFiles[k].content])),
                       JoinLines([k \in 1..Len(mainFile) |-> mainFile[k].content])))

NoResult == [content |-> EmptyText, isJsx |-> FALSE]

Init ==
    /\ bundler \in {[pc |-> "start", reName |-> reName, depFiles |-> <<>>,
                     messages |-> <<>>, deps |-> <<>>, isJsx |-> FALSE, i |-> 0,
                     removedStatements |-> <<>>, depsFiles |-> <<>>, mainFile |-> <<>>,
                     result |-> NoResult] : reName \in BOOLEAN}
    /\ merger = MergerIdle
    /\ stripper = StripperIdle
    /\ compiler = CompilerIdle

\* 1. const dependencies = await dependency(entry); let deps = dependencies.depFiles
Dependency ==
    /\ bundler.pc = "start"
    /\ \E n \in 1..MaxUnits, mutual \in MutualChoices, warn \in WarnChoices :
         \E contents \in [1..n -> UnitPalette] :
            bundler' = [bundler EXCEPT
                !.depFiles = DepFilesOf(SubSeq(Files, 1, n), contents),
                !.deps = DepFilesOf(SubSeq(Files, 1, n), contents),
                !.messages = MessagesOf(mutual, warn),
                !.pc = "checks"]
    /\ UNCHANGED <<merger, stripper, compiler>>

\* 3. await checks.series(); 4. const isJsx = check.checkJSX(deps)
Checks ==
    /\ bundler.pc = "checks"
    /\ \E jsx \in BOOLEAN : bundler' = [bundler EXCEPT !.isJsx = jsx, !.pc = "duplicates"]
    /\ UNCHANGED <<merger, stripper, compiler>>

\* 3. a check throws
ChecksThrow ==
    /\ bundler.pc = "checks"
    /\ bundler' = [bundler EXCEPT !.pc = "aborted"]
    /\ UNCHANGED <<merger, stripper, compiler>>

\* 5. duplicateHandlers.renamed / notRenamed; 6. anonymous
Duplicates ==
    /\ bundler.pc = "duplicates"
    /\ bundler' = [bundler EXCEPT !.pc = "removeImports", !.i = 1]
    /\ UNCHANGED <<merger, stripper, compiler>>

\* 5. duplicateHandlers.notRenamed throws
DuplicatesThrow ==
    /\ bundler.pc = "duplicates"
    /\ ~bundler.reName
    /\ bundler' = [bundler EXCEPT !.pc = "aborted"]
    /\ UNCHANGED <<merger, stripper, compiler>>

\* 7. the callback on one unit, with the unit's texts put before those of
\* the units already visited
RemoveImportsLaterFirst ==
    /\ bundler.pc = "removeImports"
    /\ bundler.i <= Len(bundler.deps)
    /\ bundler' = [bundler EXCEPT
            !.deps[bundler.i].content = removeImport(@),
            !.removedStatements = removedFrom(bundler.deps[bundler.i].content) \o @,
            !.i = @ + 1]
    /\ UNCHANGED <<merger, stripper, compiler>>

\* 7. deps = deps.map(removeImport[0]): the callback on one unit
RemoveImports ==
    /\ bundler.pc = "removeImports"
    /\ bundler.i <= Len(bundler.deps)
    /\ bundler' = [bundler EXCEPT
            !.deps[bundler.i].content = removeImport(@),
            !.removedStatements = @ \o removedFrom(bundler.deps[bundler.i].content),
            !.i = @ + 1]
    /\ UNCHANGED <<merger, stripper, compiler>>

\* 8. depsFiles and mainFile (lines 290-296)
RemoveExports ==
    /\ bundler.pc = "removeImports"
    /\ bundler.i > Len(bundler.deps)
    /\ bundler' = [bundler EXCEPT
            !.depsFiles = DepsFilesOf(bundler.deps),
            !.mainFile = MainFileOf(bundler.deps),
            !.pc = "merge"]
    /\ UNCHANGED <<merger, stripper, compiler>>

\* 9. filter and merge the removed statements (lines 299-301)
HandleImports ==
    /\ bundler.pc = "merge"
    /\ bundler' = [bundler EXCEPT
            !.removedStatements = mergeImports(SelectSeq(@, IsNotLocal)),
            !.pc = "assemble"]
    /\ UNCHANGED <<merger, stripper, compiler>>

\* 10. the final content; return { content, isJsx }
Assemble ==
    /\ bundler.pc = "assemble"
    /\ bundler' = [bundler EXCEPT
            !.result = [content |-> ContentOf(bundler.removedStatements,
                                              bundler.depsFiles, bundler.mainFile),
                        isJsx |-> bundler.isJsx],
            !.pc = "done"]
    /\ UNCHANGED <<merger, stripper, compiler>>

Next ==
    \/ Dependency
    \/ Checks
    \/ ChecksThrow
    \/ Duplicates
    \/ DuplicatesThrow
    \/ RemoveImports
    \/ RemoveExports
    \/ HandleImports
    \/ Assemble

Spec == Init /\ [][Next]_vars

(***************************************************************************)
(* The claims about bundle.                                                *)
(***************************************************************************)
Bundled == bundler.pc = "done"

NonBlank(text) == SelectSeq(text, LAMBDA line : line # Blank)

RECURSIVE Concat(_)
Concat(seqs) == IF seqs = <<>> THEN <<>> ELSE Head(seqs) \o Concat(Tail(seqs))

\* the unit bundle was given at position k, after ImportStripper
Unstripped(k) == removeImport(bundler.depFiles[k].content)

\* the lines of the three parts of the content C1 names, blank lines aside
ImportPart == [k \in 1..Len(bundler.removedStatements) |-> TextLine(bundler.removedStatements[k])]
NonEntryPart ==
    Concat([k \in 1..(Len(bundler.depFiles) - 1) |-> NonBlank(removeExport(Unstripped(k)))])
EntryPart == NonBlank(Unstripped(Len(bundler.depFiles)))

\* the statement, or a statement inside it, carries an export marker
RECURSIVE HasExportMarker(_)
HasExportMarker(node) ==
    \/ "export" \in Range(node.mods)
    \/ "default" \in Range(node.mods)
    \/ node.kind \in {"ExportDeclaration", "ExportAssignment"}
    \/ \E k \in 1..Len(node.body) : HasExportMarker(node.body[k])

\* an export marker that ExportStripper removes from a top-level statement
HasStrippableMarker(node) ==
    \/ /\ node.kind \in DeclarationKinds
       /\ ("export" \in Range(node.mods) \/ "default" \in Range(node.mods))
    \/ node.kind = "ExportDeclaration"
    \/ node.kind = "ExportAssignment" /\ node.ident

\* the content is the three parts in their order
ContentInFixedOrder ==
    NonBlank(bundler.result.content) = ImportPart \o NonEntryPart \o EntryPart

\* the places of the content that hold the lines of the non-entry units
NonEntryPlaces == (Len(ImportPart) + 1)..(Len(ImportPart) + Len(NonEntryPart))

RECURSIVE ImportsOf(_)
ImportsOf(node) ==
    IF IsImport(node) THEN {node}
    ELSE UNION {ImportsOf(node.body[k]) : k \in 1..Len(node.body)}

\* the import statements of a content
ImportsIn(content) == UNION {ImportsOf(content[k]) : k \in 1..Len(content)}

\* every import construct ImportStripper removes from the units of the bundle
RemovedImports ==
    UNION {ImportsIn(bundler.depFiles[u].content) : u \in 1..Len(bundler.depFiles)}

\* the merged import block at the top of the content
TopImportLines == {line \in Range(bundler.result.content) : line.kind = "Text"}

\* the import is represented in the block: a statement of the block names its
\* module specifier, and each name it binds is bound by such a statement
IsHoisted(n) ==
    /\ \E line \in TopImportLines : TextSpec(line.text) = n.spec
    /\ \A name \in BindingNames(n) :
          \E line \in TopImportLines :
              TextSpec(line.text) = n.spec /\ TextBinds(line.text, name)

\* C2 (as claimed): when bundle returns, an import construct removed from a
\* unit is represented in the merged import block if and only if its module
\* specifier is not relative.
C2_HoistedIffNotRelative ==
    Bundled => \A n \in RemovedImports : IsHoisted(n) <=> ~IsRelative(n.spec)

\* what the caller of bundle receives as warnings
Surfaced(result) == IF "messages" \in DOMAIN result THEN result.messages ELSE <<>>

\* C8 (as claimed): when bundle returns, the warning messages built from the
\* resolver's findings are in what it returns.
C8_WarningsSurfaced ==
    Bundled => Surfaced(bundler.result) = bundler.messages

\* step 7 is over: the callback has run on every unit and step 9 has not
AllImportsRemoved == bundler.pc = "removeImports" /\ bundler.i > Len(bundler.deps)

\* the texts of the import statements of a statement, itself or inside it,
\* in the order a depth-first walk meets them
RECURSIVE EncounterOrder(_)
EncounterOrder(node) ==
    IF node.kind \in {"ImportDeclaration", "ImportEqualsDeclaration"} THEN <<node.text>>
    ELSE Concat([k \in 1..Len(node.body) |-> EncounterOrder(node.body[k])])

\* the import texts of the unit bundle was given at position u
UnitImportTexts(u) ==
    Concat([k \in 1..Len(bundler.depFiles[u].content) |->
               EncounterOrder(bundler.depFiles[u].content[k])])

\* C11: once ImportStripper has run over all units, and before the filter and
\* the merge, removedStatements is the concatenation, in unit order (entry
\* last), of the import texts of each unit in depth-first encounter order.
C11_RemovedInUnitOrder ==
    AllImportsRemoved =>
        bundler.removedStatements =
            Concat([u \in 1..Len(bundler.depFiles) |-> UnitImportTexts(u)])

\* C11 witness: ImportStripper has run over several units, the first and the
\* last of which had imports removed, with different texts.
C11_SeveralUnitsWithImports ==
    /\ AllImportsRemoved
    /\ Len(bundler.depFiles) >= 2
    /\ UnitImportTexts(1) # <<>>
    /\ UnitImportTexts(Len(bundler.depFiles)) # <<>>
    /\ UnitImportTexts(1) \o UnitImportTexts(Len(bundler.depFiles))
           # UnitImportTexts(Len(bundler.depFiles)) \o UnitImportTexts(1)

(***************************************************************************)
(* SpecCompile: commonjsCompiler and esmCompiler (src/opt/compile.ts:22-136)*)
(* called on the same assembled input.                                     *)
(*                                                                         *)
(* A call runs to its end in one turn of the event loop: program.emit(),   *)
(* then the synchronous part of every map callback up to its               *)
(* `await utils.wait(500)`, then the return.  What follows the await, the  *)
(* utils.writeFile call, runs in a later turn, one callback at a time.     *)
(***************************************************************************)
Dialects == {"cjs", "esm"}

\* the characters file names are written in
NameAlphabet == {"a", "j", "s", ".", "d", "t", "m", "c"}

\* the non-empty strings of at most n characters of NameAlphabet
BaseNames(n) == SeqsUpTo(NameAlphabet, n) \ {<<>>}

E_js == <<".", "j", "s">>
E_jsMap == <<".", "j", "s", ".", "m", "a", "p">>
E_dts == <<".", "d", ".", "t", "s">>

\* the pattern matches s at position p; a dot of the pattern is the regex dot
PatternAt(s, p, pattern) ==
    /\ p + Len(pattern) - 1 <= Len(s)
    /\ \A k \in 1..Len(pattern) :
          IF pattern[k] = "." THEN ~IsLineEnd(s[p + k - 1]) ELSE s[p + k - 1] = pattern[k]

\* s.replace(/pattern/g, by) from position p on
RECURSIVE ReplaceFrom(_, _, _, _)
ReplaceFrom(s, p, pattern, by) ==
    IF p > Len(s) THEN <<>>
    ELSE IF PatternAt(s, p, pattern)
    THEN by \o ReplaceFrom(s, p + Len(pattern), pattern, by)
    ELSE <<s[p]>> \o ReplaceFrom(s, p + 1, pattern, by)

ReplaceAll(s, pattern, by) == ReplaceFrom(s, 1, pattern, by)

\* lines 72-74
CjsOutName(outName) ==
    ReplaceAll(ReplaceAll(ReplaceAll(outName, <<".", "j", "s">>, <<".", "c", "j", "s">>),
                          <<".", "m", "a", "p", ".", "j", "s">>,
                          <<".", "m", "a", "p", ".", "c", "j", "s">>),
               <<".", "d", ".", "t", "s">>, <<".", "d", ".", "c", "t", "s">>)

\* the renaming of lines 72-74 copied to the other dialect unchanged
EsmOutNameCopied(outName) == CjsOutName(outName)

\* lines 129-131
EsmOutName(outName) ==
    ReplaceAll(ReplaceAll(ReplaceAll(outName, <<".", "j", "s">>, <<".", "m", "j", "s">>),
                          <<".", "m", "a", "p", ".", "j", "s">>,
                          <<".", "m", "a", "p", ".", "m", "j", "s">>),
               <<".", "d", ".", "t", "s">>, <<".", "d", ".", "m", "t", "s">>)

\* utils.extname(outName): the name from its last dot on
RECURSIVE ExtName(_)
ExtName(name) ==
    IF name = <<>> THEN <<>>
    ELSE IF \E k \in 2..Len(name) : name[k] = "." THEN ExtName(Tail(name))
    ELSE IF Head(name) = "." THEN name
    ELSE <<>>

\* content.replace(from, to) on a content held as its lines: the first one
ReplaceFirst(content, from, to) ==
    IF \E k \in 1..Len(content) : content[k] = from
    THEN [content EXCEPT ![CHOOSE k \in 1..Len(content) :
                              content[k] = from /\ \A h \in 1..(k - 1) : content[h] # from] = to]
    ELSE content

\* for (const hook of hooks) content = hook(content, outName): a hook of the
\* caller puts its banner line before the content
RECURSIVE ApplyHooks(_, _)
ApplyHooks(hooks, content) ==
    IF hooks = <<>> THEN content
    ELSE ApplyHooks(Tail(hooks), <<Head(hooks)>> \o content)

HookChoices == {<<>>, <<"/* banner */">>}

\* program.emit() through host.writeFile: createdFiles, in the order emitted
CreatedFiles(dialect, base, all) ==
    <<[outName |-> base \o E_js,
       content |-> IF dialect = "cjs" THEN <<"\"use strict\";", "exports.default = bundle;">>
                   ELSE <<"export default bundle;">>]>>
    \o (IF all THEN <<[outName |-> base \o E_jsMap, content |-> <<"{\"version\":3}">>],
                      [outName |-> base \o E_dts,
                       content |-> <<"declare function bundle(): void;",
                                     "export default bundle;">>]>>
        ELSE <<>>)

\* lines 56-65: the text rewrites of the CommonJS pass
CjsContent(outName, content) ==
    IF ExtName(outName) = <<".", "j", "s">>
    THEN ReplaceFirst(content, "exports.default = bundle;", "module.exports = bundle;")
    ELSE IF ExtName(outName) = <<".", "t", "s">>
    THEN ReplaceFirst(content, "export default bundle;", "export = bundle;")
    ELSE content

\* lines 55-75: a callback of commonjsCompiler up to its await
CjsCallback(file, hooks) ==
    [outName |-> CjsOutName(file.outName),
     content |-> ApplyHooks(hooks, CjsContent(file.outName, file.content)),
     written |-> FALSE]

\* lines 123-132: a callback of esmCompiler up to its await
EsmCallback(file, hooks) ==
    [outName |-> EsmOutName(file.outName),
     content |-> ApplyHooks(hooks, file.content),
     written |-> FALSE]

InitCompile ==
    /\ compiler \in {[pc |-> "ready", base |-> base, all |-> all, hooks |-> hooks,
                      done |-> [d \in Dialects |-> FALSE],
                      callbacks |-> [d \in Dialects |-> <<>>]] :
                        base \in BaseNames(MaxBase), all \in BOOLEAN, hooks \in HookChoices}
    /\ merger = MergerIdle
    /\ stripper = StripperIdle
    /\ bundler = BundlerIdle

\* commonjsCompiler(sourceCode, fileName, hooks), to its return
CommonjsCompiler ==
    /\ ~compiler.done["cjs"]
    /\ compiler' = [compiler EXCEPT
            !.callbacks["cjs"] =
                [k \in 1..Len(CreatedFiles("cjs", compiler.base, compiler.all)) |->
                    CjsCallback(CreatedFiles("cjs", compiler.base, compiler.all)[k],
                                compiler.hooks)],
            !.done["cjs"] = TRUE]
    /\ UNCHANGED <<merger, stripper, bundler>>

\* esmCompiler(sourceCode, fileName, hooks), to its return
EsmCompiler ==
    /\ ~compiler.done["esm"]
    /\ compiler' = [compiler EXCEPT
            !.callbacks["esm"] =
                [k \in 1..Len(CreatedFiles("esm", compiler.base, compiler.all)) |->
                    EsmCallback(CreatedFiles("esm", compiler.base, compiler.all)[k],
                                compiler.hooks)],
            !.done["esm"] = TRUE]
    /\ UNCHANGED <<merger, stripper, bundler>>

\* a callback resumes after its wait: utils.writeFile(outName, content)
WriteFile ==
    /\ \E d \in Dialects : \E k \in 1..Len(compiler.callbacks[d]) :
          /\ ~compiler.callbacks[d][k].written
          /\ compiler' = [compiler EXCEPT !.callbacks[d][k].written = TRUE]
    /\ UNCHANGED <<merger, stripper, bundler>>

NextCompile == CommonjsCompiler \/ EsmCompiler \/ WriteFile

SpecCompile == InitCompile /\ [][NextCompile]_vars

\* the paths a dialect pass has handed to the write primitive
WrittenPaths(d) ==
    {compiler.callbacks[d][k].outName :
        k \in {h \in 1..Len(compiler.callbacks[d]) : compiler.callbacks[d][h].written}}

\* C6 (as claimed): when commonjsCompiler or esmCompiler is done, every
\* artifact of that pass has been handed to the write primitive.
C6_DoneOnlyAfterWrites ==
    \A d \in Dialects :
        compiler.done[d] =>
            \A k \in 1..Len(compiler.callbacks[d]) : compiler.callbacks[d][k].written

\* C10: no path written by commonjsCompiler is a path written by esmCompiler.
C10_DisjointPaths == WrittenPaths("cjs") \cap WrittenPaths("esm") = {}

\* C10 witness: both passes have written a script, a source map and a type
\* declaration.
C10_BothWritten ==
    /\ \A d \in Dialects : compiler.done[d] /\ Cardinality(WrittenPaths(d)) = 3

\* the suffix C12 names for the k-th emitted artifact (script, script source
\* map, type declaration) of a dialect
NamedSuffix(d, k) ==
    IF k = 1 THEN <<".", IF d = "cjs" THEN "c" ELSE "m", "j", "s">>
    ELSE IF k = 2 THEN <<".", IF d = "cjs" THEN "c" ELSE "m", "j", "s", ".", "m", "a", "p">>
    ELSE <<".", "d", ".", IF d = "cjs" THEN "c" ELSE "m", "t", "s">>

\* C12 (as claimed): every artifact is persisted under its base name,
\* unchanged character for character, followed by the suffix of its dialect:
\* X.js as X.cjs or X.mjs, X.js.map as X.cjs.map or X.mjs.map, X.d.ts as
\* X.d.cts or X.d.mts.
C12_OnlySuffixRewritten ==
    \A d \in Dialects : \A k \in 1..Len(compiler.callbacks[d]) :
        compiler.callbacks[d][k].written =>
            compiler.callbacks[d][k].outName = compiler.base \o NamedSuffix(d, k)

====
